---- MODULE Spec2Model ----
(***************************************************************************)
(* Model of odbc2parquet's batch size governor (query/batch_size_limit.rs), *)
(* its command line enumerations (enum_args.rs) and the binary identical    *)
(* column fetch strategies (query/identical.rs).                            *)
(*                                                                         *)
(* A usize does not fit the 32-bit integers of TLC, so a usize is         *)
(* carried as two limbs: [hi, lo] stands for hi * MiB + lo, 0 <= lo < MiB. *)
(***************************************************************************)
EXTENDS Integers, Sequences, FiniteSets, TLC

\* ------------------------------------------------------------------ bounds
MaxRows == 3
MaxMib == 2
MaxBytes == 3
MaxCost == 4

\* --------------------------------------------------------------- variables
VARIABLES
    target_pointer_width,    \* cfg(target_pointer_width): 32 or 64
    overflow_checks,         \* build profile: TRUE panics on overflow, FALSE wraps
    num_rows_limit,          \* argument of the last BatchSizeLimit::new
    memory_limit_mib,        \* argument of the last BatchSizeLimit::new
    limit,                   \* the BatchSizeLimit value
    constructed_by,          \* "new" or "literal": how limit was built
    total_mem_usage_per_row, \* argument of the last batch_size_in_rows
    batch_size               \* what the last batch_size_in_rows returned

govVars == <<target_pointer_width, overflow_checks, num_rows_limit,
             memory_limit_mib, limit, constructed_by, total_mem_usage_per_row,
             batch_size>>

VARIABLES
    argument,                \* the command line text handed to the parsers
    enum_call,               \* the last call into enum_args.rs: function and argument
    enum_ret                 \* what it returned

enumVars == <<argument, enum_call, enum_ret>>

VARIABLES
    strategy,                \* the column fetch strategy last constructed
    id_call,                 \* the constructor call that built it
    schema,                  \* what parquet_type returned for it
    column_writer,           \* the parquet ColumnWriter of the column
    transfer                 \* the last copy_odbc_to_parquet: outcome, and the batch it wrote

idVars == <<strategy, id_call, schema, column_writer, transfer>>

vars == <<govVars, enumVars, idVars>>

\* ------------------------------------------------------------ Option<T>
None == [some |-> FALSE]
Some(x) == [some |-> TRUE, val |-> x]

\* ------------------------------------------------------------ usize
MiB == 1024 * 1024
U32Bits == 32

U(hi, lo) == [hi |-> hi, lo |-> lo]
FromInt(n) == U(n \div MiB, n % MiB)
Zero == U(0, 0)

\* a < b
Less(a, b) == a.hi < b.hi \/ (a.hi = b.hi /\ a.lo < b.lo)
Leq(a, b) == ~Less(b, a)

\* a * c and a + c for a small integer c (used to state quotients)
MulSmall(a, c) == U(a.hi * c + ((a.lo * c) \div MiB), (a.lo * c) % MiB)
AddSmall(a, c) == U(a.hi + ((a.lo + c) \div MiB), (a.lo + c) % MiB)

\* std::cmp::min(a, b)
min(a, b) == IF Leq(a, b) THEN a ELSE b

\* num_bytes / total_mem_usage_per_row for a divisor of one limb (schoolbook
\* division, high limb first); the divisor is not zero.
DivUsize(a, c) == U(a.hi \div c, (((a.hi % c) * MiB) + a.lo) \div c)

\* mib as usize * 1024 * 1024 on a usize of `width` bits: the product has
\* limbs [mib, 0] and overflows iff mib >= 2^(width - 20).  A u32 is below
\* 2^32, so a width with width - 20 >= 32 never overflows.
MibOverflows(mib, width) == (width - 20 < U32Bits) /\ mib >= 2 ^ (width - 20)
MibToBytes(mib, width, checks) ==
    IF MibOverflows(mib, width)
    THEN IF checks
         THEN [tag |-> "Panic", msg |-> "attempt to multiply with overflow"]
         ELSE [tag |-> "Ok", val |-> U(mib % (2 ^ (width - 20)), 0)]
    ELSE [tag |-> "Ok", val |-> U(mib, 0)]

\* ------------------------------------------------------------ constants
DEFAULT_BATCH_SIZE_BYTES(width) == IF width = 64 THEN U(2 * 1024, 0) ELSE U(1024, 0)
DEFAULT_BATCH_SIZE_ROWS == 65535

\* ------------------------------------------------------------ BatchSizeLimit
Rows(rows) == [tag |-> "Rows", rows |-> rows]
Bytes(bytes) == [tag |-> "Bytes", bytes |-> bytes]
Both(rows, bytes) == [tag |-> "Both", rows |-> rows, bytes |-> bytes]
Unconstructed == [tag |-> "Unconstructed"]

\* BatchSizeLimit::new
BatchSizeLimit_new(rows_opt, mib_opt, width, checks) ==
    LET bytes == IF mib_opt.some THEN MibToBytes(mib_opt.val, width, checks)
                 ELSE [tag |-> "None"]
    IN  IF bytes.tag = "Panic" THEN bytes
        ELSE IF rows_opt.some /\ bytes.tag = "None" THEN Rows(FromInt(rows_opt.val))
        ELSE IF ~rows_opt.some /\ bytes.tag = "Ok" THEN Bytes(bytes.val)
        ELSE IF ~rows_opt.some /\ bytes.tag = "None"
             THEN Both(FromInt(DEFAULT_BATCH_SIZE_ROWS), DEFAULT_BATCH_SIZE_BYTES(width))
        ELSE Both(FromInt(rows_opt.val), bytes.val)

Ok(rows) == [tag |-> "Ok", rows |-> rows]
CapacityError(num_bytes, per_row) ==
    [tag |-> "Err", kind |-> "Memory required to hold a single row is larger than the limit",
     num_bytes |-> num_bytes, total_mem_usage_per_row |-> per_row]
DivideByZero == [tag |-> "Panic", msg |-> "attempt to divide by zero"]
NotCalled == [tag |-> "NotCalled"]

\* the closure to_num_rows of batch_size_in_rows
to_num_rows_NoZeroCheck(num_bytes, per_row) ==
    IF per_row = 0 THEN DivideByZero
    ELSE Ok(DivUsize(num_bytes, per_row))

to_num_rows(num_bytes, per_row) ==
    IF per_row = 0 THEN DivideByZero
    ELSE LET rows == DivUsize(num_bytes, per_row)
         IN  IF rows = Zero THEN CapacityError(num_bytes, per_row)
             ELSE Ok(rows)

\* BatchSizeLimit::batch_size_in_rows
batch_size_in_rows_IgnoreRows(self, per_row) ==
    IF self.tag = "Rows" THEN Ok(self.rows)
    ELSE to_num_rows(self.bytes, per_row)

batch_size_in_rows(self, per_row) ==
    IF self.tag = "Rows" THEN Ok(self.rows)
    ELSE IF self.tag = "Bytes" THEN to_num_rows(self.bytes, per_row)
    ELSE LET limit_rows == to_num_rows(self.bytes, per_row)
         IN  IF limit_rows.tag # "Ok" THEN limit_rows
             ELSE Ok(min(limit_rows.rows, self.rows))

\* ------------------------------------------------------------ inputs
Widths == {32, 64}
RowCaps == (0 .. MaxRows) \cup {DEFAULT_BATCH_SIZE_ROWS}
MibCaps == (0 .. MaxMib) \cup {4095, 4096, 4097}
ByteCaps == {FromInt(b) : b \in 0 .. MaxBytes} \cup {U(m, 0) : m \in 1 .. MaxMib}
Costs == 0 .. MaxCost
OptionOf(S) == {None} \cup {Some(x) : x \in S}

GovInitOn(widths, profiles) ==
    /\ target_pointer_width \in widths
    /\ overflow_checks \in profiles
    /\ num_rows_limit = None
    /\ memory_limit_mib = None
    /\ limit = Unconstructed
    /\ constructed_by = "none"
    /\ total_mem_usage_per_row = 0
    /\ batch_size = NotCalled

GovInit == GovInitOn(Widths, BOOLEAN)

\* let limit = BatchSizeLimit::new(num_rows_limit, memory_limit_mib)
New ==
    \E r \in OptionOf(RowCaps), m \in OptionOf(MibCaps) :
        /\ num_rows_limit' = r
        /\ memory_limit_mib' = m
        /\ limit' = BatchSizeLimit_new(r, m, target_pointer_width, overflow_checks)
        /\ constructed_by' = "new"
        /\ batch_size' = NotCalled
        /\ total_mem_usage_per_row' = 0
        /\ UNCHANGED <<target_pointer_width, overflow_checks, enumVars, idVars>>

\* let limit = BatchSizeLimit::Rows(..) | Bytes(..) | Both { .. }: the
\* variants are public and can be built without new
Literal ==
    \E r \in RowCaps, b \in ByteCaps, tag \in {"Rows", "Bytes", "Both"} :
        /\ limit' = CASE tag = "Rows" -> Rows(FromInt(r))
                      [] tag = "Bytes" -> Bytes(b)
                      [] tag = "Both" -> Both(FromInt(r), b)
        /\ constructed_by' = "literal"
        /\ num_rows_limit' = None
        /\ memory_limit_mib' = None
        /\ batch_size' = NotCalled
        /\ total_mem_usage_per_row' = 0
        /\ UNCHANGED <<target_pointer_width, overflow_checks, enumVars, idVars>>

\* limit.batch_size_in_rows(total_mem_usage_per_row)
BatchSizeInRows ==
    \E c \in Costs :
        /\ limit.tag \in {"Rows", "Bytes", "Both"}
        /\ total_mem_usage_per_row' = c
        /\ batch_size' = batch_size_in_rows(limit, c)
        /\ UNCHANGED <<target_pointer_width, overflow_checks, num_rows_limit,
                       memory_limit_mib, limit, constructed_by, enumVars, idVars>>

GovNext == New \/ Literal \/ BatchSizeInRows

\* ------------------------------------------------------------ properties
Called == batch_size.tag # "NotCalled"

\* q is the truncated quotient b / c: q * c <= b < q * c + c
IsQuotient(q, b, c) ==
    /\ Leq(MulSmall(q, c), b)
    /\ Less(b, AddSmall(MulSmall(q, c), c))

\* C1: whenever batch_size_in_rows returns successfully on a limit that
\* BatchSizeLimit::new returned, the row count is at least 1.
C1_NeverOkZero ==
    (constructed_by = "new" /\ batch_size.tag = "Ok") => Less(Zero, batch_size.rows)

\* C2: on Both{rows, bytes} with a per-row cost >= 1 the result is
\* min(rows, bytes / cost): it exceeds neither rows nor the truncated
\* quotient and equals one of them; it fails exactly when Bytes(bytes)
\* fails on the same cost, with the same error, whatever rows is.
C2_BothIsMin ==
    (Called /\ limit.tag = "Both" /\ total_mem_usage_per_row >= 1) =>
        LET c == total_mem_usage_per_row
            bytes_only == batch_size_in_rows(Bytes(limit.bytes), c)
        IN  /\ batch_size.tag \in {"Ok", "Err"}
            /\ (batch_size.tag = "Err") <=> (bytes_only.tag = "Err")
            /\ batch_size.tag = "Err" => batch_size = bytes_only
            /\ batch_size.tag = "Ok" =>
                   /\ Leq(batch_size.rows, limit.rows)
                   /\ Leq(MulSmall(batch_size.rows, c), limit.bytes)
                   /\ \/ batch_size.rows = limit.rows
                      \/ IsQuotient(batch_size.rows, limit.bytes, c)

C2_Witness ==
    /\ Called /\ limit.tag = "Both" /\ total_mem_usage_per_row >= 2
    /\ batch_size.tag = "Ok"
    /\ Less(limit.rows, DivUsize(limit.bytes, total_mem_usage_per_row))
    /\ batch_size.rows = limit.rows

\* C3: on Bytes(b) with a per-row cost c >= 1: if b >= c the result is the
\* truncated quotient b / c; if b < c it is the capacity error and no row
\* count; the error is returned exactly when the quotient is zero.
C3_BytesQuotientOrError ==
    (Called /\ limit.tag = "Bytes" /\ total_mem_usage_per_row >= 1) =>
        LET c == total_mem_usage_per_row
            b == limit.bytes
        IN  /\ Leq(FromInt(c), b) =>
                   /\ batch_size.tag = "Ok"
                   /\ IsQuotient(batch_size.rows, b, c)
            /\ Less(b, FromInt(c)) =>
                   /\ batch_size.tag = "Err"
                   /\ "rows" \notin DOMAIN batch_size
                   /\ batch_size.num_bytes = b
                   /\ batch_size.total_mem_usage_per_row = c
            /\ (batch_size.tag = "Err") <=> IsQuotient(Zero, b, c)

C3_Witness ==
    /\ Called /\ limit.tag = "Bytes" /\ total_mem_usage_per_row >= 1
    /\ batch_size.tag = "Err"
    /\ Less(Zero, limit.bytes)

\* what the construction rule resolves the two caps to, in exact arithmetic
C4_Expected(rows_opt, mib_opt, width) ==
    IF rows_opt.some /\ mib_opt.some
    THEN [tag |-> "Both", rows |-> FromInt(rows_opt.val), bytes |-> U(mib_opt.val, 0)]
    ELSE IF rows_opt.some THEN [tag |-> "Rows", rows |-> FromInt(rows_opt.val)]
    ELSE IF mib_opt.some THEN [tag |-> "Bytes", bytes |-> U(mib_opt.val, 0)]
    ELSE [tag |-> "Both", rows |-> FromInt(65535),
          bytes |-> IF width = 64 THEN U(2048, 0) ELSE U(1024, 0)]

\* C4: BatchSizeLimit::new resolves its caps to Both{rows, MiB * 1048576},
\* Rows(rows), Bytes(MiB * 1048576) or the default Both{65535, 2 GiB or
\* 1 GiB}; the byte value is the exact product for every MiB value.
C4_NewResolvesExactly ==
    constructed_by = "new" =>
        limit = C4_Expected(num_rows_limit, memory_limit_mib, target_pointer_width)

\* C10: batch_size_in_rows ends with a row count or a returned error for
\* every limit and every per-row cost, 0 included; it never aborts.
C10_NeverAborts ==
    Called => batch_size.tag \in {"Ok", "Err"}

\* ======================================================== enum_args.rs
MaxPieces == 3

\* a &str is a sequence of characters
S_plain == <<"p","l","a","i","n">>
S_delta_binary_packed ==
    <<"d","e","l","t","a","-","b","i","n","a","r","y","-","p","a","c","k","e","d">>
S_delta_byte_array ==
    <<"d","e","l","t","a","-","b","y","t","e","-","a","r","r","a","y">>
S_delta_length_byte_array ==
    <<"d","e","l","t","a","-","l","e","n","g","t","h","-","b","y","t","e","-","a","r","r","a","y">>
S_rle == <<"r","l","e">>
S_bit_packed == <<"b","i","t","-","p","a","c","k","e","d">>
S_rle_dictionary == <<"r","l","e","-","d","i","c","t","i","o","n","a","r","y">>

\* enum CompressionVariants
CompressionVariants ==
    {"Uncompressed", "Gzip", "Lz4", "Lz0", "Zstd", "Snappy", "Brotli"}

\* CompressionVariants::as_compression
as_compression(self) ==
    CASE self = "Uncompressed" -> "UNCOMPRESSED"
      [] self = "Gzip" -> "GZIP"
      [] self = "Lz4" -> "LZ4"
      [] self = "Lz0" -> "LZO"
      [] self = "Zstd" -> "ZSTD"
      [] self = "Snappy" -> "ZSTD"
      [] self = "Brotli" -> "BROTLI"

OkVal(v) == [tag |-> "Ok", val |-> v]
UnknownEncoding(source) ==
    [tag |-> "Err", kind |-> "Sorry, I do not know a column encoding called",
     token |-> source]
FormatError ==
    [tag |-> "Err",
     kind |-> "Column encoding must be parsed in format: 'COLUMN_NAME:ENCODING'"]

\* encoding_from_str
encoding_from_str_BitPacked(source) ==
    CASE source = S_plain -> OkVal("PLAIN")
      [] source = S_bit_packed -> OkVal("BIT_PACKED")
      [] source = S_delta_binary_packed -> OkVal("DELTA_BINARY_PACKED")
      [] source = S_delta_byte_array -> OkVal("DELTA_BYTE_ARRAY")
      [] source = S_delta_length_byte_array -> OkVal("DELTA_LENGTH_BYTE_ARRAY")
      [] source = S_rle -> OkVal("RLE")
      [] OTHER -> UnknownEncoding(source)

encoding_from_str(source) ==
    CASE source = S_plain -> OkVal("PLAIN")
      [] source = S_delta_binary_packed -> OkVal("DELTA_BINARY_PACKED")
      [] source = S_delta_byte_array -> OkVal("DELTA_BYTE_ARRAY")
      [] source = S_delta_length_byte_array -> OkVal("DELTA_LENGTH_BYTE_ARRAY")
      [] source = S_rle -> OkVal("RLE")
      [] OTHER -> UnknownEncoding(source)

\* str::find and str::rfind: the 0-based position of the first / last ch
find(source, ch) ==
    LET hits == {i \in 1 .. Len(source) : source[i] = ch}
    IN  IF hits = {} THEN None
        ELSE Some((CHOOSE i \in hits : \A j \in hits : i <= j) - 1)

rfind(source, ch) ==
    LET hits == {i \in 1 .. Len(source) : source[i] = ch}
    IN  IF hits = {} THEN None
        ELSE Some((CHOOSE i \in hits : \A j \in hits : j <= i) - 1)

\* str::split_at(pos) and &s[from..]
split_at(source, pos) ==
    <<SubSeq(source, 1, pos), SubSeq(source, pos + 1, Len(source))>>
slice_from(s, from) == SubSeq(s, from + 1, Len(s))

\* column_encoding_from_str
column_encoding_from_str_FirstColon(source) ==
    LET pos == find(source, ":")
    IN  IF ~pos.some THEN FormatError
        ELSE LET parts == split_at(source, pos.val)
                 encoding == encoding_from_str(slice_from(parts[2], 1))
             IN  IF encoding.tag = "Err" THEN encoding
                 ELSE OkVal(<<parts[1], encoding.val>>)

column_encoding_from_str(source) ==
    LET pos == rfind(source, ":")
    IN  IF ~pos.some THEN FormatError
        ELSE LET parts == split_at(source, pos.val)
                 encoding == encoding_from_str(slice_from(parts[2], 1))
             IN  IF encoding.tag = "Err" THEN encoding
                 ELSE OkVal(<<parts[1], encoding.val>>)

\* command line texts: up to MaxPieces pieces glued together
Pieces ==
    {<<":">>, <<"a">>, S_plain, S_delta_binary_packed, S_delta_byte_array,
     S_delta_length_byte_array, S_rle, S_bit_packed, S_rle_dictionary}

RECURSIVE Glue(_)
Glue(n) ==
    IF n = 0 THEN {<<>>}
    ELSE LET shorter == Glue(n - 1)
         IN  shorter \cup {s \o p : s \in shorter, p \in Pieces}

Sources == Glue(MaxPieces)

NoCall == [fn |-> "none"]

NoArgument == [some |-> FALSE]

EnumInit ==
    /\ argument = NoArgument
    /\ enum_call = NoCall
    /\ enum_ret = NoCall

\* the command line hands over the text of an option
TakeArgument ==
    /\ ~argument.some
    /\ \E s \in Sources : argument' = Some(s)
    /\ UNCHANGED <<enum_call, enum_ret, govVars, idVars>>

AsCompression ==
    \E v \in CompressionVariants :
        /\ enum_call' = [fn |-> "as_compression", arg |-> v]
        /\ enum_ret' = OkVal(as_compression(v))
        /\ UNCHANGED <<argument, govVars, idVars>>

EncodingFromStr ==
    /\ argument.some
    /\ enum_call' = [fn |-> "encoding_from_str", arg |-> argument.val]
    /\ enum_ret' = encoding_from_str(argument.val)
    /\ UNCHANGED <<argument, govVars, idVars>>

ColumnEncodingFromStr ==
    /\ argument.some
    /\ enum_call' = [fn |-> "column_encoding_from_str", arg |-> argument.val]
    /\ enum_ret' = column_encoding_from_str(argument.val)
    /\ UNCHANGED <<argument, govVars, idVars>>

EnumNext == TakeArgument \/ AsCompression \/ EncodingFromStr \/ ColumnEncodingFromStr

\* C7: as_compression is one-to-one: each codec name maps to its own codec
\* identifier and no two names share one.
C7_OwnCodec(v) ==
    CASE v = "Uncompressed" -> "UNCOMPRESSED"
      [] v = "Gzip" -> "GZIP"
      [] v = "Lz4" -> "LZ4"
      [] v = "Lz0" -> "LZO"
      [] v = "Zstd" -> "ZSTD"
      [] v = "Snappy" -> "SNAPPY"
      [] v = "Brotli" -> "BROTLI"

C7_OneToOne ==
    enum_call.fn = "as_compression" =>
        /\ enum_ret.val = C7_OwnCodec(enum_call.arg)
        /\ \A other \in CompressionVariants \ {enum_call.arg} :
               as_compression(other) # enum_ret.val

\* C8: column_encoding_from_str splits on the last colon: the name is the
\* text before it, the encoding is encoding_from_str of the text after it
\* (its failure propagated); without a colon it fails with the format error.
C8_SplitsOnLastColon ==
    enum_call.fn = "column_encoding_from_str" =>
        LET source == enum_call.arg
            colons == {k \in 1 .. Len(source) : source[k] = ":"}
        IN  IF colons = {} THEN enum_ret = FormatError
            ELSE \E k \in colons :
                    /\ \A j \in colons : j <= k
                    /\ LET name == [i \in 1 .. k - 1 |-> source[i]]
                           rest == [i \in 1 .. Len(source) - k |-> source[k + i]]
                           enc == encoding_from_str(rest)
                       IN  /\ name \o <<":">> \o rest = source
                           /\ enc.tag = "Err" => enum_ret = enc
                           /\ enc.tag = "Ok" => enum_ret = OkVal(<<name, enc.val>>)

C8_Witness ==
    /\ enum_call.fn = "column_encoding_from_str"
    /\ enum_ret.tag = "Ok"
    /\ \E i \in 1 .. Len(enum_ret.val[1]) : enum_ret.val[1][i] = ":"
    /\ enum_ret.val[2] = "PLAIN"

\* C9: encoding_from_str succeeds for exactly plain, delta-binary-packed,
\* delta-byte-array, delta-length-byte-array and rle, each with its own
\* identifier; every other token is an error naming the token.
C9_Allowed ==
    {<<S_plain, "PLAIN">>, <<S_delta_binary_packed, "DELTA_BINARY_PACKED">>,
     <<S_delta_byte_array, "DELTA_BYTE_ARRAY">>,
     <<S_delta_length_byte_array, "DELTA_LENGTH_BYTE_ARRAY">>, <<S_rle, "RLE">>}

C9_ExactlyFiveTokens ==
    enum_call.fn = "encoding_from_str" =>
        /\ (enum_ret.tag = "Ok") <=> (\E a \in C9_Allowed : a[1] = enum_call.arg)
        /\ enum_ret.tag = "Ok" => <<enum_call.arg, enum_ret.val>> \in C9_Allowed
        /\ enum_ret.tag # "Ok" =>
               /\ enum_ret.tag = "Err"
               /\ enum_ret.token = enum_call.arg

C9_Witness ==
    /\ enum_call.fn = "encoding_from_str"
    /\ enum_call.arg = S_bit_packed
    /\ enum_ret.tag = "Err"
    /\ enum_ret.token = S_bit_packed

\* ==================================================== query/identical.rs
MaxSlots == 2
MaxValue == 2
MaxPrecision == 2

\* parquet::basic::Type
PhysicalTypes ==
    {"BOOLEAN", "INT32", "INT64", "INT96", "FLOAT", "DOUBLE", "BYTE_ARRAY",
     "FIXED_LEN_BYTE_ARRAY"}
\* parquet::basic::ConvertedType, the ones a caller annotates with
ConvertedTypes == {"NONE", "DATE", "TIMESTAMP_MICROS"}
Precisions == 0 .. MaxPrecision
Values == 1 .. MaxValue
ColumnNames == {"price"}

\* struct IdenticalOptional<Pdt> / IdenticalRequired<Pdt>
Strategy(variant, pdt, converted_type, precision) ==
    [tag |-> "Strategy", variant |-> variant, pdt |-> pdt,
     converted_type |-> converted_type, precision |-> precision]
Panic(msg) == [tag |-> "Panic", msg |-> msg]
OnlyIntegers == "Only INT32 and INT64 are allowed to represent Decimal with scale 0"

\* IdenticalOptional::with_converted_type, ::new, ::decimal_with_precision
IdenticalOptional_with_converted_type(pdt, converted_type) ==
    Strategy("Optional", pdt, converted_type, None)

IdenticalOptional_new(pdt) == IdenticalOptional_with_converted_type(pdt, "NONE")

IdenticalOptional_decimal_with_precision(pdt, precision, prefer_int_over_decimal) ==
    IF prefer_int_over_decimal
    THEN CASE pdt = "INT32" -> Strategy("Optional", pdt, "INT_32", None)
           [] pdt = "INT64" -> Strategy("Optional", pdt, "INT_64", None)
           [] OTHER -> Panic(OnlyIntegers)
    ELSE Strategy("Optional", pdt, "DECIMAL", Some(precision))

\* IdenticalRequired::with_converted_type, ::new, ::decimal_with_precision
IdenticalRequired_with_converted_type(pdt, converted_type) ==
    Strategy("Required", pdt, converted_type, None)

IdenticalRequired_new(pdt) == IdenticalRequired_with_converted_type(pdt, "NONE")

IdenticalRequired_decimal_with_precision_NoPanic(pdt, precision, prefer_int_over_decimal) ==
    IF prefer_int_over_decimal /\ pdt = "INT32"
    THEN Strategy("Required", pdt, "INT_32", None)
    ELSE IF prefer_int_over_decimal /\ pdt = "INT64"
    THEN Strategy("Required", pdt, "INT_64", None)
    ELSE Strategy("Required", pdt, "DECIMAL", Some(precision))

IdenticalRequired_decimal_with_precision(pdt, precision, prefer_int_over_decimal) ==
    IF prefer_int_over_decimal
    THEN CASE pdt = "INT32" -> Strategy("Required", pdt, "INT_32", None)
           [] pdt = "INT64" -> Strategy("Required", pdt, "INT_64", None)
           [] OTHER -> Panic(OnlyIntegers)
    ELSE Strategy("Required", pdt, "DECIMAL", Some(precision))

\* fetch_identical, fetch_identical_with_converted_type,
\* fetch_decimal_as_identical_with_precision
fetch_identical(pdt, is_optional) ==
    IF is_optional THEN IdenticalOptional_new(pdt) ELSE IdenticalRequired_new(pdt)

fetch_identical_with_converted_type(pdt, is_optional, converted_type) ==
    IF is_optional THEN IdenticalOptional_with_converted_type(pdt, converted_type)
    ELSE IdenticalRequired_with_converted_type(pdt, converted_type)

fetch_decimal_as_identical_with_precision(pdt, is_optional, precision, prefer) ==
    IF is_optional THEN IdenticalOptional_decimal_with_precision(pdt, precision, prefer)
    ELSE IdenticalRequired_decimal_with_precision(pdt, precision, prefer)

\* Type::primitive_type_builder(..)...build().unwrap(): build is the parquet
\* crate's and returns a Result; build_ok is whether it accepts the fragment.
BuildUnwrap(builder, build_ok) ==
    IF build_ok THEN [builder EXCEPT !.tag = "Type"]
    ELSE Panic("called Result::unwrap() on an Err value")

PrimitiveTypeBuilder(name, physical_type, repetition, converted_type) ==
    [tag |-> "Builder", name |-> name, physical_type |-> physical_type,
     repetition |-> repetition, converted_type |-> converted_type,
     scale |-> None, precision |-> None]

\* IdenticalOptional::parquet_type
IdenticalOptional_parquet_type(self, name, build_ok) ==
    LET builder == PrimitiveTypeBuilder(name, self.pdt, "OPTIONAL", self.converted_type)
    IN  IF self.precision.some
        THEN BuildUnwrap([builder EXCEPT !.scale = Some(0),
                                         !.precision = Some(self.precision.val)],
                         build_ok)
        ELSE BuildUnwrap(builder, build_ok)

\* IdenticalRequired::parquet_type
IdenticalRequired_parquet_type(self, name, build_ok) ==
    LET builder == PrimitiveTypeBuilder(name, self.pdt, "REQUIRED", self.converted_type)
    IN  IF self.precision.some
        THEN BuildUnwrap([builder EXCEPT !.scale = Some(0),
                                         !.precision = Some(self.precision.val)],
                         build_ok)
        ELSE BuildUnwrap(builder, build_ok)

\* IdenticalOptional::buffer_description, IdenticalRequired::buffer_description
IdenticalOptional_buffer_description(self) ==
    [kind |-> <<"BUFFER_KIND", self.pdt>>, nullable |-> TRUE]
IdenticalRequired_buffer_description(self) ==
    [kind |-> <<"BUFFER_KIND", self.pdt>>, nullable |-> FALSE]

\* AnyColumnView: a dense slice of values, or one Option per row
DenseView(values) == [tag |-> "Dense", values |-> values]
NullableView(rows) == [tag |-> "Nullable", rows |-> rows]

\* Item::as_slice and Item::as_nullable_slice
as_slice(column_view) ==
    IF column_view.tag = "Dense" THEN Some(column_view.values) ELSE None
as_nullable_slice(column_view) ==
    IF column_view.tag = "Nullable" THEN Some(column_view.rows) ELSE None

\* Option<&T>::copied
copied(opt_ref) == IF opt_ref.some THEN Some(opt_ref.val) ELSE None

\* ColumnWriter: the values and the definition levels written so far
EmptyWriter(repetition) ==
    [tag |-> "Writer", repetition |-> repetition, values |-> <<>>, def_levels |-> <<>>]
UnitOk == [tag |-> "Ok"]
WriteError == [tag |-> "Err", kind |-> "write_batch"]

\* ColumnWriterImpl::write_batch(values, def_levels, None)
write_batch(cw, values, def_levels, write_ok) ==
    IF ~write_ok THEN [ret |-> WriteError, cw |-> cw]
    ELSE [ret |-> UnitOk,
          cw |-> [cw EXCEPT !.values = @ \o values,
                            !.def_levels = IF def_levels.some THEN @ \o def_levels.val
                                           ELSE @]]

\* ParquetBuffer::write_optional: the present values, a definition level
\* of 1 or 0 per item, handed to write_batch in one call
RECURSIVE PresentValues(_)
PresentValues(items) ==
    IF items = <<>> THEN <<>>
    ELSE (IF Head(items).some THEN <<Head(items).val>> ELSE <<>>)
         \o PresentValues(Tail(items))

write_optional(cw, source, write_ok) ==
    LET def_levels == [i \in 1 .. Len(source) |-> IF source[i].some THEN 1 ELSE 0]
    IN  write_batch(cw, PresentValues(source), Some(def_levels), write_ok)

\* IdenticalOptional::copy_odbc_to_parquet
IdenticalOptional_copy_odbc_to_parquet_Dense(column_writer_, column_view, write_ok) ==
    LET it == as_nullable_slice(column_view)
    IN  IF ~it.some
        THEN [ret |-> Panic("called Option::unwrap() on a None value"),
              cw |-> column_writer_]
        ELSE write_batch(column_writer_, PresentValues(it.val), None, write_ok)

IdenticalOptional_copy_odbc_to_parquet(column_writer_, column_view, write_ok) ==
    LET it == as_nullable_slice(column_view)
    IN  IF ~it.some
        THEN [ret |-> Panic("called Option::unwrap() on a None value"),
              cw |-> column_writer_]
        ELSE write_optional(column_writer_,
                            [i \in 1 .. Len(it.val) |-> copied(it.val[i])], write_ok)

\* IdenticalRequired::copy_odbc_to_parquet
IdenticalRequired_copy_odbc_to_parquet(column_writer_, column_view, write_ok) ==
    LET values == as_slice(column_view)
    IN  IF ~values.some
        THEN [ret |-> Panic("called Option::unwrap() on a None value"),
              cw |-> column_writer_]
        ELSE write_batch(column_writer_, values.val, None, write_ok)

\* dispatch through the ColumnFetchStrategy trait object
parquet_type(self, name, build_ok) ==
    IF self.variant = "Optional" THEN IdenticalOptional_parquet_type(self, name, build_ok)
    ELSE IdenticalRequired_parquet_type(self, name, build_ok)
buffer_description(self) ==
    IF self.variant = "Optional" THEN IdenticalOptional_buffer_description(self)
    ELSE IdenticalRequired_buffer_description(self)
copy_odbc_to_parquet(self, cw, column_view, write_ok) ==
    IF self.variant = "Optional"
    THEN IdenticalOptional_copy_odbc_to_parquet(cw, column_view, write_ok)
    ELSE IdenticalRequired_copy_odbc_to_parquet(cw, column_view, write_ok)

\* the logical slots a writer holds, one Option per row written
RECURSIVE Decode(_, _)
Decode(values, def_levels) ==
    IF def_levels = <<>> THEN <<>>
    ELSE IF Head(def_levels) = 1
         THEN IF values = <<>> THEN <<"missing value">>
              ELSE <<Some(Head(values))>> \o Decode(Tail(values), Tail(def_levels))
         ELSE <<None>> \o Decode(values, Tail(def_levels))

Slots(cw) ==
    IF cw.repetition = "REQUIRED" THEN [i \in 1 .. Len(cw.values) |-> Some(cw.values[i])]
    ELSE Decode(cw.values, cw.def_levels)

\* batches of up to n rows
RECURSIVE SeqsUpTo(_, _)
SeqsUpTo(S, n) ==
    IF n = 0 THEN {<<>>}
    ELSE LET shorter == SeqsUpTo(S, n - 1)
         IN  shorter \cup {Append(s, x) : s \in shorter, x \in S}

\* the views a fetch can leave in a buffer bound as the descriptor says
ViewsFor(description, n) ==
    IF description.nullable
    THEN {NullableView(rows) : rows \in SeqsUpTo(OptionOf(Values), n)}
    ELSE {DenseView(values) : values \in SeqsUpTo(Values, n)}

NotBuilt == [tag |-> "NotBuilt"]
NoWriter == [tag |-> "NoWriter"]
NoTransfer == [tag |-> "NoTransfer"]

IdInit ==
    /\ strategy = [tag |-> "NoStrategy"]
    /\ id_call = NoCall
    /\ schema = NotBuilt
    /\ column_writer = NoWriter
    /\ transfer = NoTransfer

\* a strategy is constructed once per column, before its first batch
Constructed(call, result) ==
    /\ strategy.tag = "NoStrategy"
    /\ id_call' = call
    /\ strategy' = result
    /\ schema' = NotBuilt
    /\ column_writer' = NoWriter
    /\ transfer' = NoTransfer
    /\ UNCHANGED <<govVars, enumVars>>

FetchIdentical ==
    \E pdt \in PhysicalTypes, is_optional \in BOOLEAN :
        Constructed([fn |-> "new", pdt |-> pdt, is_optional |-> is_optional],
                    fetch_identical(pdt, is_optional))

FetchIdenticalWithConvertedType ==
    \E pdt \in PhysicalTypes, is_optional \in BOOLEAN, ct \in ConvertedTypes :
        Constructed([fn |-> "with_converted_type", pdt |-> pdt,
                     is_optional |-> is_optional, converted_type |-> ct],
                    fetch_identical_with_converted_type(pdt, is_optional, ct))

FetchDecimalAsIdenticalWithPrecision ==
    \E pdt \in PhysicalTypes, is_optional \in BOOLEAN, precision \in Precisions,
       prefer \in BOOLEAN :
        Constructed([fn |-> "decimal_with_precision", pdt |-> pdt,
                     is_optional |-> is_optional, precision |-> precision,
                     prefer_int_over_decimal |-> prefer],
                    fetch_decimal_as_identical_with_precision(pdt, is_optional,
                                                              precision, prefer))

\* strategy.parquet_type(name), before the column is written
ParquetType ==
    \E name \in ColumnNames, build_ok \in BOOLEAN :
        /\ strategy.tag = "Strategy"
        /\ schema = NotBuilt
        /\ schema' = parquet_type(strategy, name, build_ok)
        /\ UNCHANGED <<strategy, id_call, column_writer, transfer, govVars, enumVars>>

\* the file builder opens the column's writer from the schema fragment
OpenColumnWriter ==
    /\ schema.tag = "Type"
    /\ column_writer = NoWriter
    /\ column_writer' = EmptyWriter(schema.repetition)
    /\ UNCHANGED <<strategy, id_call, schema, transfer, govVars, enumVars>>

\* strategy.copy_odbc_to_parquet(parquet_buffer, column_writer, column_view)
CopyOdbcToParquet ==
    /\ strategy.tag = "Strategy"
    /\ column_writer.tag = "Writer"
    /\ transfer.tag # "Panic"
    /\ \E column_view \in ViewsFor(buffer_description(strategy),
                                   MaxSlots - Len(Slots(column_writer))),
          write_ok \in BOOLEAN :
          LET done == copy_odbc_to_parquet(strategy, column_writer, column_view, write_ok)
          IN  /\ column_writer' = done.cw
              /\ transfer' = IF done.ret.tag = "Ok"
                              THEN [tag |-> "Ok", ret |-> done.ret,
                                    column_view |-> column_view,
                                    slots_before |-> Len(Slots(column_writer))]
                              ELSE [tag |-> done.ret.tag, ret |-> done.ret]
    /\ UNCHANGED <<strategy, id_call, schema, govVars, enumVars>>

IdNext ==
    \/ FetchIdentical
    \/ FetchIdenticalWithConvertedType
    \/ FetchDecimalAsIdenticalWithPrecision
    \/ ParquetType
    \/ OpenColumnWriter
    \/ CopyOdbcToParquet

\* C5: a successful copy_odbc_to_parquet writes one slot per row of the
\* batch, in row order: IdenticalRequired hands the N values to write_batch
\* with no definition levels; IdenticalOptional writes N slots, a null at
\* each absent row and the source value at each present row.
C5_OneSlotPerRow ==
    transfer.tag = "Ok" =>
        LET slots == Slots(column_writer)
            before == transfer.slots_before
            view == transfer.column_view
        IN  IF strategy.variant = "Required"
            THEN /\ Len(slots) = before + Len(view.values)
                 /\ \A i \in 1 .. Len(view.values) :
                        slots[before + i] = Some(view.values[i])
                 /\ column_writer.def_levels = <<>>
                 /\ Len(column_writer.values) = Len(slots)
            ELSE /\ Len(slots) = before + Len(view.rows)
                 /\ \A i \in 1 .. Len(view.rows) :
                        /\ ~view.rows[i].some => slots[before + i] = None
                        /\ view.rows[i].some => slots[before + i] = Some(view.rows[i].val)
                 /\ Len(column_writer.def_levels) = Len(slots)

C5_Witness ==
    /\ transfer.tag = "Ok"
    /\ strategy.variant = "Optional"
    /\ transfer.slots_before = 0
    /\ transfer.column_view = NullableView(<<None, Some(2)>>)
    /\ Slots(column_writer) = <<None, Some(2)>>

\* C6: decimal_with_precision, Optional and Required: with the flag, INT32
\* gives INT_32 and INT64 gives INT_64, no precision stored, any other kind
\* panics; without it the strategy is DECIMAL with the precision stored and
\* a schema fragment built from it carries scale 0.
C6_DecimalWithPrecision ==
    id_call.fn = "decimal_with_precision" =>
        LET variant == IF id_call.is_optional THEN "Optional" ELSE "Required"
        IN  IF id_call.prefer_int_over_decimal
            THEN /\ id_call.pdt = "INT32" =>
                        strategy = Strategy(variant, "INT32", "INT_32", None)
                 /\ id_call.pdt = "INT64" =>
                        strategy = Strategy(variant, "INT64", "INT_64", None)
                 /\ id_call.pdt \notin {"INT32", "INT64"} => strategy.tag = "Panic"
            ELSE /\ strategy = Strategy(variant, id_call.pdt, "DECIMAL",
                                        Some(id_call.precision))
                 /\ schema.tag = "Type" =>
                        /\ schema.converted_type = "DECIMAL"
                        /\ schema.scale = Some(0)
                        /\ schema.precision = Some(id_call.precision)

C6_Witness ==
    /\ id_call.fn = "decimal_with_precision"
    /\ id_call.prefer_int_over_decimal
    /\ ~id_call.is_optional
    /\ id_call.pdt = "DOUBLE"
    /\ strategy.tag = "Panic"

\* ======================================================= specifications
Init == GovInit /\ EnumInit /\ IdInit

\* enum_args.rs and identical.rs read neither the pointer width nor the
\* build profile: their specifications start from one build
OneBuildInit == GovInitOn({64}, {FALSE}) /\ EnumInit /\ IdInit

GovSpec == Init /\ [][GovNext]_vars
EnumSpec == OneBuildInit /\ [][EnumNext]_vars
IdSpec == OneBuildInit /\ [][IdNext]_vars

Next == GovNext \/ EnumNext \/ IdNext
Spec == Init /\ [][Next]_vars
====
